---- MODULE Spec2Model ----
(***************************************************************************)
(* check-whois: the driver loop and the WHOIS polling engine of            *)
(* src/check-whois.py, with the label normalisation of src/filipUtils.py.  *)
(*                                                                         *)
(* Text read from the input file is a sequence of one-character strings.   *)
(* A WHOIS response is a sequence of chunks (strings) whose concatenation  *)
(* is the text written by the whois process on its standard output.  None  *)
(* of the chunks used here occurs inside another chunk or across the       *)
(* boundary of two chunks, so a signature occurs in the response exactly   *)
(* when it is one of its chunks.                                           *)
(*                                                                         *)
(* The program only appends to its log and never reads it, so the state    *)
(* keeps the records of the current candidate (from its "Trying" record    *)
(* on); the calls of time.sleep, whois and outfile.write are kept for the  *)
(* whole run.  The exit status of an attempt is used within the attempt    *)
(* only; an exit status of 2 or more leaves an error record in the log.    *)
(***************************************************************************)
EXTENDS Integers, Sequences, FiniteSets, TLC

(* ---------------------------- bounds ----------------------------------- *)
MaxLines == 2
MaxSkip == 1
MaxLength == 1
MaxOptions == 2

(* ------------------------ program constants ---------------------------- *)
GIVE_UP_THRESHOLD == 4
MIN_VALID_WHOIS_OUTPUT == 50

supported_tlds == {"cz", "sk", "com", "net", "org"}

whois_not_found_string ==
  [cz  |-> "ERROR:101: no entries found",
   sk  |-> "Not found.",
   com |-> "No match for \"",
   net |-> "No match for \"",
   org |-> "NOT FOUND"]

whois_connection_limit_string ==
  [cz  |-> "Your connection limit exceeded.",
   sk  |-> "Your connection limit exceeded.",
   com |-> "WHOIS LIMIT EXCEEDED",
   net |-> "WHOIS LIMIT EXCEEDED",
   org |-> "WHOIS LIMIT EXCEEDED"]

(* ----------------------- text helpers (Python) ------------------------- *)
None == "None"

Truthy(v) == v # None /\ v # ""

Min(a, b) == IF a <= b THEN a ELSE b

RECURSIVE Translate(_, _, _)
(* unicode.translate with a table given as two parallel sequences; a       *)
(* character missing from the table is kept.                               *)
Translate(str, intab, outtab) ==
  IF str = <<>> THEN <<>>
  ELSE LET c == Head(str)
           hits == {i \in 1..Len(intab) : intab[i] = c}
           d == IF hits = {} THEN c ELSE outtab[CHOOSE i \in hits : TRUE]
       IN <<d>> \o Translate(Tail(str), intab, outtab)

RECURSIVE Delete(_, _)
(* unicode.translate with {ord(ch): None}: every ch is removed.            *)
Delete(str, ch) ==
  IF str = <<>> THEN <<>>
  ELSE IF Head(str) = ch THEN Delete(Tail(str), ch)
       ELSE <<Head(str)>> \o Delete(Tail(str), ch)

(* A non-ASCII character is written as its code point, "U+00E1" for a-acute. *)
removeDiacritics(str) ==
  Translate(str,
    <<"U+011B","U+0161","U+010D","U+0159","U+017E","U+00FD","U+00E1","U+00ED",
      "U+00E9","U+016F","U+00FA","U+00F3","U+0165","U+010F","U+0148","U+011A",
      "U+0160","U+010C","U+0158","U+017D","U+00DD","U+00C1","U+00CD","U+00C9",
      "U+016E","U+00DA","U+0164","U+010E","U+0147">>,
    <<"e","s","c","r","z","y","a","i","e","u","u","o","t","d","n",
      "E","S","C","R","Z","Y","A","I","E","U","U","T","D","N">>)

removeSpaces(str) == Delete(str, " ")

removeDots(str) == Delete(str, ".")

AsciiUpper ==
  <<"A","B","C","D","E","F","G","H","I","J","K","L","M",
    "N","O","P","Q","R","S","T","U","V","W","X","Y","Z">>

AsciiLower ==
  <<"a","b","c","d","e","f","g","h","i","j","k","l","m",
    "n","o","p","q","r","s","t","u","v","w","x","y","z">>

Whitespace == {" ", "\t", "\n", "\r"}

Ascii ==
  {AsciiUpper[i] : i \in 1..26} \cup {AsciiLower[i] : i \in 1..26}
    \cup Whitespace \cup {".", "-", "0", "1", "2", "3", "4", "5", "6", "7", "8", "9"}

RECURSIVE EncodeAsciiIgnore(_)
(* unicode.encode('ascii', 'ignore'): non-ASCII characters are dropped.    *)
EncodeAsciiIgnore(str) ==
  IF str = <<>> THEN <<>>
  ELSE IF Head(str) \in Ascii
       THEN <<Head(str)>> \o EncodeAsciiIgnore(Tail(str))
       ELSE EncodeAsciiIgnore(Tail(str))

RECURSIVE LStrip(_)
LStrip(str) ==
  IF str # <<>> /\ Head(str) \in Whitespace THEN LStrip(Tail(str)) ELSE str

RECURSIVE RStrip(_)
RStrip(str) ==
  IF str # <<>> /\ str[Len(str)] \in Whitespace
  THEN RStrip(SubSeq(str, 1, Len(str) - 1)) ELSE str

Strip(str) == RStrip(LStrip(str))

Lower(str) == Translate(str, AsciiUpper, AsciiLower)

RECURSIVE Join(_)
(* The byte string made of the characters of str.                          *)
Join(str) == IF str = <<>> THEN "" ELSE Head(str) \o Join(Tail(str))

(* " svaty mikulas\n" (with diacritics) --> "svatymikulas"                 *)
Normalize(line) ==
  Lower(Strip(EncodeAsciiIgnore(
    removeSpaces(removeDots(removeDiacritics(line))))))

(* ------------------------- WHOIS responses ----------------------------- *)
RECURSIVE StrLen(_)
(* len(output): the number of characters of the response.                  *)
StrLen(chunks) ==
  IF chunks = <<>> THEN 0 ELSE Len(Head(chunks)) + StrLen(Tail(chunks))

(* str.find: the offset of the first occurrence of sub, or -1.             *)
Find(chunks, sub) ==
  LET hits == {i \in 1..Len(chunks) : chunks[i] = sub}
  IN IF hits = {} THEN -1
     ELSE StrLen(SubSeq(chunks, 1, (CHOOSE i \in hits : \A j \in hits : i <= j) - 1))


(* A registration record, longer than MIN_VALID_WHOIS_OUTPUT, holding no   *)
(* signature of any registry.                                              *)
Record == "domain: example\nregistrant: SOMEBODY\nstatus: paid and in zone\n"

(* The responses the whois process may print for a registry.               *)
WhoisOutputs(t) ==
  LET nf == whois_not_found_string[t]
      lim == whois_connection_limit_string[t]
  IN {<<>>, <<nf>>, <<lim>>, <<Record>>, <<Record, nf>>, <<lim, nf>>}

(* Exit statuses of the whois process: found, not found, error.            *)
ReturnCodes == {0, 1, 2}

(* ------------------------------ inputs --------------------------------- *)
(* Lines of the input file; their labels are "", "a" and "bc".             *)
InputLines ==
  {<<" ", ".", "\n">>,
   <<" ", "U+00C1", "\n">>,
   <<"U+00D3", "b", ".", " ", "U+010C", "\n">>}

(* domain_name of every line of InputLines, computed once.                 *)
Label == [line \in InputLines |-> Normalize(line)]

(* domain_name as a byte string, for every line of InputLines.             *)
LabelText == [line \in InputLines |-> Join(Normalize(line))]

InputFiles == UNION {[1..n -> InputLines] : n \in 0..MaxLines}

(* What the output file holds before the run: the line of an earlier run.  *)
PriorOutputs == {<<"previous.cz\n">>}

Tlds == {"cz", "com"}

(* ------------------------------- state --------------------------------- *)
VARIABLES
  tld,                 \* -d, --tld
  min_domain_length,   \* --min
  max_domain_length,   \* --max
  skip_first,          \* --skip
  infile,              \* the lines of the input file
  pos,                 \* number of lines read from infile
  outfile,             \* lines of the output file on disk
  outbuf,              \* lines written to outfile and not flushed yet
  domain_name,         \* label of the current line (characters)
  domain_tld,          \* fully-qualified domain of the current candidate
  output,              \* last response of whois
  wait_seconds,        \* current backoff delay
  log,                 \* records logged since the last "Trying" record
  trace,               \* calls of time.sleep, whois and outfile.write, in order
  argv,                \* options of the command line not parsed yet
  args,                \* number of file paths on the command line
  input_ok,            \* the input file can be opened
  output_ok,           \* the output file can be opened
  exit_code,           \* <<status>> once the process has ended, <<>> before
  pc                   \* position of the program

vars ==
  <<tld, min_domain_length, max_domain_length, skip_first, infile, pos, outfile,
    outbuf, domain_name, domain_tld, output, wait_seconds, log,
    trace, argv, args, input_ok, output_ok, exit_code, pc>>

config ==
  <<tld, min_domain_length, max_domain_length, skip_first, infile, args,
    input_ok, output_ok>>

LogRec(level, kind, text) == [level |-> level, kind |-> kind, text |-> text]

SleepEv(seconds) == [op |-> "sleep", arg |-> seconds]

WhoisEv(domain) == [op |-> "whois", arg |-> domain]

WriteEv(text) == [op |-> "write", arg |-> text]

(* The state once the command line is parsed (lines 90-130).               *)
Init ==
  /\ tld \in Tlds
  /\ min_domain_length \in 0..MaxLength
  /\ max_domain_length \in 0..MaxLength
  /\ skip_first \in 0..MaxSkip
  /\ infile \in InputFiles
  /\ pos = 0
  /\ outfile \in PriorOutputs
  /\ outbuf = <<>>
  /\ domain_name = <<>>
  /\ domain_tld = ""
  /\ output = <<>>
  /\ wait_seconds = 1
  /\ log = <<>>
  /\ trace = <<>>
  /\ argv = <<>>
  /\ args = 1
  /\ input_ok = TRUE
  /\ output_ok = TRUE
  /\ exit_code = <<>>
  /\ pc = "open"

(* --------------------------- command line ------------------------------ *)
(* The options getopt accepts (line 91).                                   *)
KnownOptions ==
  {"-h", "--help", "-d", "--tld", "-s", "--suffix", "--min", "--max",
   "--debug", "--skip"}

Digits == <<"0", "1", "2", "3", "4", "5", "6", "7", "8", "9">>

IsDigit(c) == \E d \in 1..Len(Digits) : Digits[d] = c

RECURSIVE DigitsValue(_)
DigitsValue(str) ==
  IF str = <<>> THEN 0
  ELSE 10 * DigitsValue(SubSeq(str, 1, Len(str) - 1))
         + (CHOOSE d \in 1..Len(Digits) : Digits[d] = str[Len(str)]) - 1

(* int(arg): surrounding whitespace and a sign are accepted, then digits   *)
(* only; anything else raises ValueError.                                  *)
ParseInt(arg) ==
  LET body == Strip(arg)
      signed == body # <<>> /\ Head(body) \in {"+", "-"}
      digits == IF signed THEN Tail(body) ELSE body
      ok == digits # <<>> /\ \A i \in 1..Len(digits) : IsDigit(digits[i])
  IN [ok |-> ok,
      value |-> IF ~ok THEN 0
                ELSE IF signed /\ Head(body) = "-" THEN 0 - DigitsValue(digits)
                ELSE DigitsValue(digits)]

(* Exit status of a process that ends with an uncaught exception.          *)
UncaughtException == 1

(* Lines 113, 115, 120: int(arg) is not guarded: a malformed number ends   *)
(* the process with a traceback.                                           *)
BadNumber == UncaughtException

(* Lines 99-120: one option of the for loop; s.exit is <<>> while the      *)
(* loop runs.                                                              *)
ParseOption(s, o) ==
  IF s.exit # <<>> THEN s
  ELSE IF o.opt \in {"-h", "--help"} THEN [s EXCEPT !.exit = <<2>>]
  ELSE IF o.opt \in {"-d", "--tld"}
       THEN IF Join(o.arg) \notin supported_tlds
            THEN [s EXCEPT !.tld = Join(o.arg), !.exit = <<2>>]
            ELSE [s EXCEPT !.tld = Join(o.arg)]
  ELSE IF o.opt = "--min"
       THEN IF ParseInt(o.arg).ok
            THEN [s EXCEPT !.min = ParseInt(o.arg).value]
            ELSE [s EXCEPT !.exit = <<BadNumber>>]
  ELSE IF o.opt = "--max"
       THEN IF ParseInt(o.arg).ok
            THEN [s EXCEPT !.max = ParseInt(o.arg).value]
            ELSE [s EXCEPT !.exit = <<BadNumber>>]
  ELSE IF o.opt = "--skip"
       THEN IF ParseInt(o.arg).ok
            THEN [s EXCEPT !.skip = ParseInt(o.arg).value]
            ELSE [s EXCEPT !.exit = <<BadNumber>>]
  ELSE s

RECURSIVE ParseOptions(_, _)
ParseOptions(s, opts) ==
  IF opts = <<>> THEN s
  ELSE ParseOptions(ParseOption(s, Head(opts)), Tail(opts))

(* Lines 90-130: getopt refuses an unknown option before any option is     *)
(* looked at; the options are then taken in order; at last the input path  *)
(* is required.                                                            *)
CommandLine(defaults, opts, paths) ==
  IF \E i \in 1..Len(opts) : opts[i].opt \notin KnownOptions
  THEN [defaults EXCEPT !.exit = <<2>>]
  ELSE LET s == ParseOptions(defaults, opts)
       IN IF s.exit = <<>> /\ paths = 0 THEN [s EXCEPT !.exit = <<2>>] ELSE s

(* Lines 90-130: the command line is parsed; the process goes on to open   *)
(* its files or ends.                                                      *)
ParseArgs ==
  /\ pc = "args"
  /\ LET s == CommandLine(
                [tld |-> tld, min |-> min_domain_length,
                 max |-> max_domain_length, skip |-> skip_first,
                 exit |-> <<>>], argv, args)
     IN /\ tld' = s.tld
        /\ min_domain_length' = s.min
        /\ max_domain_length' = s.max
        /\ skip_first' = s.skip
        /\ exit_code' = s.exit
        /\ pc' = IF s.exit = <<>> THEN "open" ELSE "exited"
  /\ UNCHANGED <<argv, infile, args, input_ok, output_ok, pos, outfile,
                 outbuf, domain_name, domain_tld, output, wait_seconds, log,
                 trace>>

(* Lines 152-154 and 158-161: a file cannot be opened, sys.exit(1).  The   *)
(* input is opened, and its first lines read, before the output.           *)
OpenFails ==
  /\ pc = "open"
  /\ ~(input_ok /\ output_ok)
  /\ pos' = IF input_ok THEN Min(skip_first, Len(infile)) ELSE pos
  /\ exit_code' = <<1>>
  /\ pc' = "exited"
  /\ UNCHANGED <<config, argv, outfile, outbuf, domain_name, domain_tld,
                 output, wait_seconds, log, trace>>

(* ------------------------------ driver --------------------------------- *)
(* SkipLines reading one line too many.                                    *)
SkipLinesOneMore(lines, n) == Min(n + 1, Len(lines))

(* for i in xrange(skip_first): infile.readline()                          *)
SkipLines(lines, n) == Min(n, Len(lines))

(* The output opened with mode 'w': the file is truncated.                 *)
OpenForWrite(content) == <<>>

(* Line 157: open(output_file_path, 'a') keeps what the file holds.         *)
OpenForAppend(content) == content

(* Lines 147-161: the input is opened and its first skip_first lines are   *)
(* read; the output is opened for appending.                               *)
OpenFiles ==
  /\ pc = "open"
  /\ input_ok /\ output_ok
  /\ pos' = SkipLines(infile, skip_first)
  /\ outfile' = OpenForAppend(outfile)
  /\ pc' = "line"
  /\ UNCHANGED <<config, argv, exit_code, outbuf, domain_name, domain_tld, output,
                 wait_seconds, log, trace>>

(* InBounds without the lower bound.                                       *)
InBoundsMaxOnly(name) == Len(name) <= max_domain_length

(* min_domain_length <= len(domain_name) <= max_domain_length              *)
InBounds(name) ==
  min_domain_length <= Len(name) /\ Len(name) <= max_domain_length

(* Lines 163-171, filter not passed: the next line is read.                *)
SkipLine ==
  /\ pc = "line"
  /\ pos < Len(infile)
  /\ ~InBounds(Label[infile[pos + 1]])
  /\ pos' = pos + 1
  /\ domain_name' = Label[infile[pos + 1]]
  /\ UNCHANGED <<config, argv, exit_code, outfile, outbuf, domain_tld, output,
                 wait_seconds, log, trace, pc>>

(* StartCandidate with lines 174-175 left out: the delay and the response  *)
(* of the candidate before are kept.                                       *)
StartCandidateKeepsRetryState ==
  /\ pc = "line"
  /\ pos < Len(infile)
  /\ InBounds(Label[infile[pos + 1]])
  /\ pos' = pos + 1
  /\ domain_name' = Label[infile[pos + 1]]
  /\ domain_tld' = LabelText[infile[pos + 1]] \o "." \o tld
  /\ log' = <<LogRec("info", "trying", "Trying " \o domain_tld')>>
  /\ pc' = "sleep"
  /\ UNCHANGED <<config, argv, exit_code, outfile, outbuf, output,
                 wait_seconds, trace>>

(* Lines 163-176, filter passed: a candidate is started.                   *)
StartCandidate ==
  /\ pc = "line"
  /\ pos < Len(infile)
  /\ InBounds(Label[infile[pos + 1]])
  /\ pos' = pos + 1
  /\ domain_name' = Label[infile[pos + 1]]
  /\ domain_tld' = LabelText[infile[pos + 1]] \o "." \o tld
  /\ log' = <<LogRec("info", "trying", "Trying " \o domain_tld')>>
  /\ output' = <<>>
  /\ wait_seconds' = 1
  /\ pc' = "sleep"
  /\ UNCHANGED <<config, argv, exit_code, outfile, outbuf, trace>>

(* Lines 234-239: end of input, both files are closed and main returns:    *)
(* the process ends with exit status 0.                                    *)
CloseFiles ==
  /\ pc = "line"
  /\ pos >= Len(infile)
  /\ outfile' = outfile \o outbuf
  /\ outbuf' = <<>>
  /\ exit_code' = <<0>>
  /\ pc' = "done"
  /\ UNCHANGED <<config, argv, pos, domain_name, domain_tld, output,
                 wait_seconds, log, trace>>

(* ------------------------------ engine --------------------------------- *)
(* Sleep with the pacing sleep left out: the query follows at once.        *)
SleepLeftOut ==
  /\ pc = "sleep"
  /\ pc' = "query"
  /\ UNCHANGED <<config, argv, exit_code, pos, outfile, outbuf, domain_name,
                 domain_tld, output, wait_seconds, log, trace>>

(* Line 179: time.sleep(wait_seconds).                                     *)
Sleep ==
  /\ pc = "sleep"
  /\ trace' = Append(trace, SleepEv(wait_seconds))
  /\ pc' = "query"
  /\ UNCHANGED <<config, argv, exit_code, pos, outfile, outbuf, domain_name, domain_tld, output,
                 wait_seconds, log>>

(* IsTransient with the exit status guarding both tests.                   *)
IsTransientStatusFirst(err, rc, out, t) ==
  /\ Truthy(err) \/ rc >= 2
  /\ \/ StrLen(out) < MIN_VALID_WHOIS_OUTPUT
     \/ Find(out, whois_connection_limit_string[t]) # -1

(* IsTransient taking exit status 1 for an error as well.                  *)
IsTransientFromStatusOne(err, rc, out, t) ==
  \/ (Truthy(err) \/ rc >= 1) /\ StrLen(out) < MIN_VALID_WHOIS_OUTPUT
  \/ Find(out, whois_connection_limit_string[t]) # -1

(* IsTransient taking every short output for a failure.                    *)
IsTransientAnyShort(err, rc, out, t) ==
  \/ StrLen(out) < MIN_VALID_WHOIS_OUTPUT
  \/ Find(out, whois_connection_limit_string[t]) # -1

(* Lines 203-205: the attempt has to be repeated.                          *)
IsTransient(err, rc, out, t) ==
  \/ (Truthy(err) \/ rc >= 2) /\ StrLen(out) < MIN_VALID_WHOIS_OUTPUT
  \/ Find(out, whois_connection_limit_string[t]) # -1

(* Escalate growing the delay by one second instead of doubling it.        *)
EscalateByOne(seconds) == seconds + 1

(* Line 207: wait_seconds *= 2.                                            *)
Escalate(seconds) == seconds * 2

(* TooLong with a strict comparison.                                       *)
TooLongStrict(seconds) == seconds > GIVE_UP_THRESHOLD

(* Line 208: wait_seconds >= GIVE_UP_THRESHOLD.                            *)
TooLong(seconds) == seconds >= GIVE_UP_THRESHOLD

(* Lines 182-214 and 216-218: one call of whois and its evaluation.  The   *)
(* standard error of the process is not piped, so err is None.             *)
Query ==
  /\ pc = "query"
  /\ \E out \in WhoisOutputs(tld), rc \in ReturnCodes :
       LET err == None
           log1 == IF Truthy(err)
                   THEN Append(log, LogRec("error", "err", err))
                   ELSE log
           log2 == IF rc >= 2
                   THEN Append(log1, LogRec("error", "returncode",
                          "Process whois returned with code " \o ToString(rc)))
                   ELSE log1
           log3 == Append(log2, LogRec("debug", "output", out))
       IN /\ trace' = Append(trace, WhoisEv(domain_tld))
          /\ output' = out
          /\ IF IsTransient(err, rc, out, tld)
             THEN /\ wait_seconds' = Escalate(wait_seconds)
                  /\ IF TooLong(wait_seconds')
                     THEN /\ log' = Append(log3, LogRec("error", "gave_up",
                                      "Unrecoverable error on " \o domain_tld
                                        \o ", gave up."))
                          /\ pc' = "classify"
                     ELSE /\ log' = Append(log3, LogRec("debug", "waiting",
                                      "... waiting " \o ToString(wait_seconds')
                                        \o " seconds"))
                          /\ pc' = "backoff"
             ELSE /\ wait_seconds' = wait_seconds
                  /\ log' = log3
                  /\ pc' = "classify"
  /\ UNCHANGED <<config, argv, exit_code, pos, outfile, outbuf, domain_name, domain_tld>>

(* Line 215: time.sleep(wait_seconds) after a failed attempt.              *)
Backoff ==
  /\ pc = "backoff"
  /\ trace' = Append(trace, SleepEv(wait_seconds))
  /\ pc' = "sleep"
  /\ UNCHANGED <<config, argv, exit_code, pos, outfile, outbuf, domain_name, domain_tld, output,
                 wait_seconds, log>>

(* IsFree taking offset 0 for "not found".                                 *)
IsFreePositive(out, t) == Find(out, whois_not_found_string[t]) > 0

(* IsFree comparing with the wrong operator.                               *)
IsFreeAlways(out, t) == Find(out, whois_not_found_string[t]) >= -1

(* Lines 220-221: error_index is not -1.                                   *)
IsFree(out, t) == Find(out, whois_not_found_string[t]) # -1

(* Flush left out: written lines stay in the buffer until the file closes. *)
FlushMissing(disk, buffer) == [disk |-> disk, buffer |-> buffer]

(* Flush putting the buffered lines on the disk twice.                     *)
FlushTwice(disk, buffer) == [disk |-> disk \o buffer \o buffer, buffer |-> <<>>]

(* Line 227: outfile.flush() moves the buffered lines to the disk.         *)
Flush(disk, buffer) == [disk |-> disk \o buffer, buffer |-> <<>>]

(* The give-up leaving the for loop as well: the run stops.                *)
AfterCandidateStopOnGiveUp ==
  IF SelectSeq(log, LAMBDA r : r.kind = "gave_up") # <<>> THEN "done" ELSE "line"

(* Line 163: after a candidate the for loop goes on with the next line.    *)
AfterCandidate == "line"

(* Lines 220-232: the response left by the loop is searched for the        *)
(* not-found signature; a free domain is written and flushed.              *)
Classify ==
  /\ pc = "classify"
  /\ IF IsFree(output, tld)
     THEN LET written == Append(outbuf, domain_tld \o "\n")
              flushed == Flush(outfile, written)
          IN /\ log' = Append(log, LogRec("info", "free",
                                "- " \o domain_tld \o " is free"))
             /\ trace' = Append(trace, WriteEv(domain_tld \o "\n"))
             /\ outfile' = flushed.disk
             /\ outbuf' = flushed.buffer
     ELSE /\ log' = Append(log, LogRec("debug", "registered",
                              domain_tld \o " already registered"))
          /\ UNCHANGED <<outfile, outbuf, trace>>
  /\ pc' = AfterCandidate
  /\ UNCHANGED <<config, argv, exit_code, pos, domain_name, domain_tld, output,
                 wait_seconds>>

Next ==
  \/ OpenFiles
  \/ SkipLine
  \/ StartCandidate
  \/ CloseFiles
  \/ Sleep
  \/ Query
  \/ Backoff
  \/ Classify

Spec == Init /\ [][Next]_vars

(* The program runs on its own: a step that can be taken is taken (each    *)
(* call of whois returns).                                                 *)
FairSpec == Spec /\ WF_vars(Next)

(* Options of the command lines tried: good and bad ones.                  *)
OptionTokens ==
  {[opt |-> "-h", arg |-> <<>>],
   [opt |-> "--tld", arg |-> <<"c", "o", "m">>],
   [opt |-> "-d", arg |-> <<"x", "x">>],
   [opt |-> "--min", arg |-> <<"0">>],
   [opt |-> "--max", arg |-> <<"1", "x">>],
   [opt |-> "--skip", arg |-> <<" ", "1">>],
   [opt |-> "--frob", arg |-> <<>>]}

CommandLines == UNION {[1..n -> OptionTokens] : n \in 0..MaxOptions}

(* The process as it starts: the defaults of lines 66-87 and a command     *)
(* line; the input has at most one line.                                   *)
ArgInit ==
  /\ tld = "cz"
  /\ min_domain_length = 1
  /\ max_domain_length = 18
  /\ skip_first = 0
  /\ infile \in {f \in InputFiles : Len(f) <= 1}
  /\ pos = 0
  /\ outfile \in PriorOutputs
  /\ outbuf = <<>>
  /\ domain_name = <<>>
  /\ domain_tld = ""
  /\ output = <<>>
  /\ wait_seconds = 1
  /\ log = <<>>
  /\ trace = <<>>
  /\ argv \in CommandLines
  /\ args \in 0..2
  /\ input_ok \in BOOLEAN
  /\ output_ok \in BOOLEAN
  /\ exit_code = <<>>
  /\ pc = "args"

ArgNext ==
  \/ ParseArgs
  \/ OpenFails
  \/ Next

(* The whole process, from its command line to its exit status.            *)
ArgSpec == ArgInit /\ [][ArgNext]_vars

TypeOK ==
  /\ pc \in {"args", "open", "line", "sleep", "query", "backoff", "classify",
            "done", "exited"}
  /\ pos \in 0..Len(infile)
  /\ wait_seconds \in {1, 2, 4}

(* --------------------------- observations ------------------------------ *)
(* The records of a kind logged for the current candidate.                 *)
LogOf(kind) == SelectSeq(log, LAMBDA r : r.kind = kind)

(* The loop was left at line 211: the give-up record is logged.            *)
GaveUp == LogOf("gave_up") # <<>>

(* Number of whois calls made for the current candidate: every call logs   *)
(* its output (line 199).                                                  *)
Attempts == Len(LogOf("output"))

(* Every response received for the current candidate holds the             *)
(* connection-limit signature of the registry.                             *)
AllThrottled ==
  \A i \in 1..Len(log) :
    log[i].kind = "output" =>
      \E j \in 1..Len(log[i].text) :
        log[i].text[j] = whois_connection_limit_string[tld]

RECURSIVE Pow2(_)
Pow2(n) == IF n = 0 THEN 1 ELSE 2 * Pow2(n - 1)

(* C1: when the engine gives up on a candidate, nothing is appended to the *)
(* output for that candidate, whatever the last response was: the step     *)
(* that follows a give-up leaves the output file and its buffer alone.     *)
C1_GaveUpWritesNothing ==
  [][(pc = "classify" /\ GaveUp) => (outfile' = outfile /\ outbuf' = outbuf)]_vars

(* C2: while every response of a candidate holds the connection-limit      *)
(* signature, the delay after n failed attempts is 2^n (1, 2, 4); below    *)
(* the give-up threshold the engine is still retrying, and once the delay  *)
(* reaches the threshold the engine has given up: it never leaves the loop *)
(* through the branch that takes the response as final.                    *)
C2_ThrottledRetriesThenGivesUp ==
  (log # <<>> /\ AllThrottled) =>
    /\ wait_seconds = Pow2(Attempts)
    /\ wait_seconds < GIVE_UP_THRESHOLD =>
         (pc \in {"sleep", "query", "backoff"} /\ ~GaveUp)
    /\ wait_seconds >= GIVE_UP_THRESHOLD =>
         (GaveUp /\ pc \in {"classify", "line", "done"})

(* C2 witness: a candidate has given up after two throttled attempts.      *)
C2_Witness ==
  /\ pc = "classify"
  /\ GaveUp
  /\ AllThrottled
  /\ Attempts = 2
  /\ wait_seconds = 4

(* An attempt left the loop through the final branch (lines 216-218): the  *)
(* response is accepted and waits for its classification.                  *)
Accepted == pc = "classify" /\ ~GaveUp

(* The not-found signature of the registry is one of the chunks.           *)
HasNotFound(out) ==
  \E j \in 1..Len(out) : out[j] = whois_not_found_string[tld]

(* C3: an accepted response that holds the not-found signature, whatever   *)
(* the exit status, is reported free and exactly one line, the             *)
(* fully-qualified domain, reaches the output: the classification appends  *)
(* it, and no other step of the candidate touches the output.              *)
C3_AcceptedNotFoundIsFree ==
  [][/\ (Accepted /\ HasNotFound(output)) =>
          /\ outfile' = Append(outfile, Join(domain_name) \o "." \o tld \o "\n")
          /\ outbuf' = <<>>
          /\ log'[Len(log')].kind = "free"
          /\ trace' = Append(trace, WriteEv(Join(domain_name) \o "." \o tld \o "\n"))
     /\ pc \in {"sleep", "query", "backoff"} =>
          (outfile' = outfile /\ outbuf' = outbuf)]_vars

(* C3 witness: a response with the signature and exit status 2 was         *)
(* accepted and its domain is the last line of the output.                 *)
C3_Witness ==
  /\ pc = "line"
  /\ ~GaveUp
  /\ LogOf("free") # <<>>
  /\ Attempts = 1
  /\ log[2].kind = "returncode"
  /\ HasNotFound(output)
  /\ outfile[Len(outfile)] = domain_tld \o "\n"

(* C4: an accepted response without the not-found signature is reported    *)
(* registered and the output is left as it was.                            *)
C4_AcceptedOtherIsRegistered ==
  [][(Accepted /\ ~HasNotFound(output)) =>
        /\ outfile' = outfile
        /\ outbuf' = outbuf
        /\ trace' = trace
        /\ log'[Len(log')].kind = "registered"]_vars

(* C4 witness: a registration record was accepted and reported registered. *)
C4_Witness ==
  /\ pc = "line"
  /\ ~GaveUp
  /\ LogOf("registered") # <<>>
  /\ output = <<Record>>

(* Length of the label of the line the driver reads next.                  *)
NextLabelLength == Len(Label[infile[pos + 1]])

(* C5: a line whose label is shorter than min or longer than max causes no *)
(* query, no sleep, no write and no retry: the step that reads it leaves   *)
(* trace, output file, buffer and log alone and the driver is at the next  *)
(* line.                                                                   *)
C5_OutOfBoundsLineIsSkipped ==
  [][(/\ pc = "line"
      /\ pos < Len(infile)
      /\ \/ NextLabelLength < min_domain_length
         \/ NextLabelLength > max_domain_length) =>
        /\ pc' = "line"
        /\ pos' = pos + 1
        /\ trace' = trace
        /\ outfile' = outfile
        /\ outbuf' = outbuf
        /\ log' = log
        /\ wait_seconds' = wait_seconds]_vars

(* C5 witness: the line just read has a label longer than max, an earlier  *)
(* line had a label shorter than min, and the driver is back at the loop   *)
(* head with nothing done.                                                 *)
C5_Witness ==
  /\ pc = "line"
  /\ pos = 2
  /\ skip_first = 0
  /\ Len(Label[infile[1]]) < min_domain_length
  /\ Len(domain_name) > max_domain_length
  /\ trace = <<>>

(* The fully-qualified domain queried for a line.                          *)
DomainOf(line) == LabelText[line] \o "." \o tld

(* The lines that pass the length filter.                                  *)
Wanted(line) ==
  /\ min_domain_length <= Len(Label[line])
  /\ Len(Label[line]) <= max_domain_length

(* C6: a give-up does not stop the run: from a give-up the run goes on to  *)
(* the end of the input, and by then every in-bounds line after the        *)
(* skipped prefix has been queried at least once.                          *)
C6_GiveUpDoesNotStopTheRun ==
  (pc = "classify" /\ GaveUp) ~>
    /\ pc = "done"
    /\ pos = Len(infile)
    /\ \A i \in 1..Len(infile) :
         (i > skip_first /\ Wanted(infile[i])) =>
           \E k \in 1..Len(trace) : trace[k] = WhoisEv(DomainOf(infile[i]))

(* C6 witness: a candidate has given up while an in-bounds line is still   *)
(* to be read.                                                             *)
C6_Witness ==
  /\ pc = "classify"
  /\ GaveUp
  /\ pos < Len(infile)
  /\ Wanted(infile[pos + 1])
  /\ DomainOf(infile[pos + 1]) # domain_tld

RECURSIVE FirstAttempts(_)
(* The candidates queried, in order: the whois calls that follow a sleep   *)
(* of the initial delay.                                                   *)
FirstAttempts(events) ==
  IF Len(events) < 2 THEN <<>>
  ELSE LET n == Len(events)
           rest == FirstAttempts(SubSeq(events, 1, n - 1))
       IN IF events[n].op = "whois" /\ events[n - 1] = SleepEv(1)
          THEN Append(rest, events[n].arg)
          ELSE rest

RECURSIVE Candidates(_)
(* The candidates of a run that skips nothing over the given lines.        *)
Candidates(lines) ==
  IF lines = <<>> THEN <<>>
  ELSE (IF Wanted(Head(lines)) THEN <<DomainOf(Head(lines))>> ELSE <<>>)
         \o Candidates(Tail(lines))

(* The input without its first n lines.                                    *)
Drop(lines, n) == SubSeq(lines, n + 1, Len(lines))

IsPrefix(a, b) == Len(a) <= Len(b) /\ SubSeq(b, 1, Len(a)) = a

(* C7: a run with skip = N queries the candidates that a run without skip  *)
(* queries over the input less its first N lines, in the same order (none  *)
(* when N is at least the number of lines): during the run the queried     *)
(* candidates are a prefix of that sequence, at the end they are all of it. *)
C7_SkipIsFullRunOnTheRest ==
  /\ IsPrefix(FirstAttempts(trace), Candidates(Drop(infile, skip_first)))
  /\ pc = "done" => FirstAttempts(trace) = Candidates(Drop(infile, skip_first))

(* C7 witness: a finished run that skipped an in-bounds first line and     *)
(* queried the second.                                                     *)
C7_Witness ==
  /\ pc = "done"
  /\ skip_first = 1
  /\ Len(infile) = 2
  /\ Wanted(infile[1])
  /\ FirstAttempts(trace) = <<DomainOf(infile[2])>>
  /\ DomainOf(infile[1]) # DomainOf(infile[2])

(* C8: the output is append-only: every step keeps what the output file    *)
(* held before it, from the content found when the run started onwards, as *)
(* an unchanged prefix of what it holds after it, written-and-unflushed    *)
(* lines included.                                                         *)
C8_OutputIsAppendOnly ==
  [][/\ IsPrefix(outfile, outfile')
     /\ IsPrefix(outfile \o outbuf, outfile' \o outbuf')]_vars

(* C8 witness: the line of the earlier run is followed by two lines of     *)
(* this run.                                                               *)
C8_Witness ==
  /\ pc = "done"
  /\ Len(outfile) = 3
  /\ <<outfile[1]>> \in PriorOutputs

(* C9: whatever was written is on the disk before the next candidate       *)
(* sleeps or queries: while a candidate is sleeping, querying or being     *)
(* classified the write buffer is empty, and from the moment a candidate   *)
(* is reported free its line is the last line of the file on disk.         *)
C9_FreeDomainsAreFlushedBeforeNextCandidate ==
  /\ pc \in {"sleep", "query", "backoff", "classify"} => outbuf = <<>>
  /\ LogOf("free") # <<>> =>
       /\ outbuf = <<>>
       /\ outfile[Len(outfile)] = domain_tld \o "\n"

(* C9 witness: the second candidate is about to sleep and the line of the  *)
(* first one is on the disk.                                               *)
C9_Witness ==
  /\ pc = "sleep"
  /\ pos = 2
  /\ Len(outfile) = 2
  /\ outfile[2] = DomainOf(infile[1]) \o "\n"
  /\ outbuf = <<>>

(* The events of the current candidate: the trace from its first sleep,    *)
(* the only sleep of the initial delay.                                    *)
CandidateTrace ==
  LET starts == {k \in 1..Len(trace) : trace[k] = SleepEv(1)}
  IN IF starts = {} THEN <<>>
     ELSE SubSeq(trace, CHOOSE k \in starts : \A j \in starts : j <= k, Len(trace))

(* The delay slept right before each whois call of the current candidate.  *)
DelaysAtAttempts ==
  LET ct == CandidateTrace
      calls == SelectSeq([k \in 1..Len(ct) |-> k], LAMBDA k : ct[k].op = "whois")
  IN [n \in 1..Len(calls) |-> ct[calls[n] - 1].arg]

(* Every response of the current candidate is the connection-limit         *)
(* message and nothing else.                                               *)
OnlyLimitResponses ==
  \A i \in 1..Len(log) :
    log[i].kind = "output" => log[i].text = <<whois_connection_limit_string[tld]>>

ErrorRecords == SelectSeq(log, LAMBDA r : r.level = "error")

NoWriteForCandidate ==
  \A k \in 1..Len(CandidateTrace) : CandidateTrace[k].op # "write"

(* C10 as stated: with the connection-limit response on every attempt the  *)
(* engine makes three attempts, at delays 1, 2 and 4, before it gives up   *)
(* without a write and with one error record.                              *)
C10_ThreeAttemptsBeforeGiveUp ==
  (GaveUp /\ OnlyLimitResponses) =>
    /\ Attempts = 3
    /\ DelaysAtAttempts = <<1, 2, 4>>
    /\ NoWriteForCandidate
    /\ Len(ErrorRecords) = 1

(* C10 amended: with the connection-limit response on every attempt the    *)
(* engine makes two attempts, at delays 1 and 2; the second failure takes  *)
(* the delay to 4, the give-up threshold, and the engine gives up;         *)
(* nothing is written for the candidate, and the error records are the one *)
(* give-up record and one record per attempt that exited with status 2 or  *)
(* more.                                                                   *)
C10_TwoAttemptsBeforeGiveUp ==
  (GaveUp /\ OnlyLimitResponses) =>
    /\ Attempts = 2
    /\ DelaysAtAttempts = <<1, 2>>
    /\ wait_seconds = 4
    /\ NoWriteForCandidate
    /\ Len(LogOf("gave_up")) = 1
    /\ Len(ErrorRecords) = 1 + Len(LogOf("returncode"))
    /\ Len(LogOf("returncode")) <= Attempts

(* C10 witness: a candidate throttled on both attempts, both with exit     *)
(* status 0 or 1, has given up and has been passed over without a write:   *)
(* its only error record is the give-up.                                   *)
C10_Witness ==
  /\ pc = "line"
  /\ GaveUp
  /\ OnlyLimitResponses
  /\ Attempts = 2
  /\ Len(ErrorRecords) = 1
  /\ LogOf("registered") # <<>>
  /\ NoWriteForCandidate

(* The transport responses of the current candidate, in order, as the log  *)
(* shows them: the output of every attempt (line 199) and whether the      *)
(* attempt exited with status 2 or more (lines 191-197).                   *)
Responses ==
  LET at == SelectSeq([k \in 1..Len(log) |-> k], LAMBDA k : log[k].kind = "output")
  IN [n \in 1..Len(at) |->
        [out |-> log[at[n]].text,
         failed |-> log[at[n] - 1].kind = "returncode"]]

(* The candidate is finished: its classification is logged.                *)
Finished == LogOf("free") # <<>> \/ LogOf("registered") # <<>>

HasChunk(out, chunk) == \E j \in 1..Len(out) : out[j] = chunk

RECURSIVE EngineEvents(_, _, _, _)
(* What the engine does with a sequence of responses for a domain of a     *)
(* registry, started at a delay: the sleeps and calls up to the response   *)
(* that ends the loop, then the write if that response holds the           *)
(* not-found signature.                                                    *)
EngineEvents(rs, domain, t, delay) ==
  IF rs = <<>> THEN <<>>
  ELSE LET r == Head(rs)
           attempt == <<SleepEv(delay), WhoisEv(domain)>>
           again == \/ r.failed /\ StrLen(r.out) < MIN_VALID_WHOIS_OUTPUT
                    \/ HasChunk(r.out, whois_connection_limit_string[t])
           ending == IF HasChunk(r.out, whois_not_found_string[t])
                     THEN <<WriteEv(domain \o "\n")>> ELSE <<>>
       IN IF again /\ 2 * delay < GIVE_UP_THRESHOLD
          THEN attempt \o <<SleepEv(2 * delay)>>
                 \o EngineEvents(Tail(rs), domain, t, 2 * delay)
          ELSE attempt \o ending

(* The engine gives up on a sequence of responses when its last one is     *)
(* a failure as well and every one before it was.                          *)
EngineGivesUp(rs, t) ==
  /\ rs # <<>>
  /\ LET r == rs[Len(rs)]
     IN \/ r.failed /\ StrLen(r.out) < MIN_VALID_WHOIS_OUTPUT
        \/ HasChunk(r.out, whois_connection_limit_string[t])

(* C11: the engine is a function of the transport: for a finished          *)
(* candidate the sleeps, calls and write, in order, and the give-up are    *)
(* the values of fixed functions of the domain, the registry and the       *)
(* sequence of responses received, so two runs with the same responses     *)
(* make the same attempts at the same delays and end the same way.         *)
C11_EngineIsFunctionOfResponses ==
  (log # <<>> /\ Finished) =>
    /\ CandidateTrace = EngineEvents(Responses, domain_tld, tld, 1)
    /\ GaveUp = EngineGivesUp(Responses, tld)
    /\ Attempts = Len(Responses)

(* C11 witness: a finished candidate with two attempts, the first with     *)
(* exit status 2 and a short response, the second accepted and free.       *)
C11_Witness ==
  /\ pc = "line"
  /\ Finished
  /\ Len(Responses) = 2
  /\ Responses[1].failed
  /\ ~GaveUp
  /\ LogOf("free") # <<>>

(* ------------------------------- C12 ----------------------------------- *)
(* The command line asks for the usage text.                               *)
AsksHelp == \E i \in 1..Len(argv) : argv[i].opt \in {"-h", "--help"}

(* A bad-argument case: an unknown option, an unsupported TLD, a malformed *)
(* number for --min, --max or --skip, or no input path.                    *)
BadArguments ==
  \/ \E i \in 1..Len(argv) : argv[i].opt \notin KnownOptions
  \/ \E i \in 1..Len(argv) :
       argv[i].opt \in {"-d", "--tld"} /\ Join(argv[i].arg) \notin supported_tlds
  \/ \E i \in 1..Len(argv) :
       argv[i].opt \in {"--min", "--max", "--skip"} /\ ~ParseInt(argv[i].arg).ok
  \/ args = 0

Ended == pc \in {"exited", "done"}

(* C12: a process that was not asked for the usage text ends with status 2 *)
(* in every bad-argument case, before any line is read, any file written   *)
(* or any query issued; with status 1 when the input or the output file    *)
(* cannot be opened; with status 0 otherwise.  The code ends with status 1 *)
(* on a malformed number (lines 113, 115, 120), so this does not hold.     *)
C12_ExitCodes ==
  (Ended /\ ~AsksHelp) =>
    /\ BadArguments =>
         /\ exit_code = <<2>>
         /\ pos = 0 /\ trace = <<>> /\ outfile \in PriorOutputs
    /\ (~BadArguments /\ ~(input_ok /\ output_ok)) => exit_code = <<1>>
    /\ (~BadArguments /\ input_ok /\ output_ok) => exit_code = <<0>>

(* ------------------------------- C13 ----------------------------------- *)
(* Positions of the logged responses of the current candidate.             *)
OutputAt == {k \in 1..Len(log) : log[k].kind = "output"}

(* The process ended with status 2 or more: line 197 logged it just before *)
(* the output.                                                             *)
FailedAt(k) == k > 1 /\ log[k - 1].kind = "returncode"

(* The attempt was taken for a transient failure: the retry branch logged  *)
(* its wait or its give-up right after the output (lines 206-213).         *)
RetriedAt(k) == k < Len(log) /\ log[k + 1].kind \in {"waiting", "gave_up"}

(* C13: an attempt is retried exactly when (exit status >= 2 and output    *)
(* shorter than 50 characters) or the output holds the connection-limit    *)
(* signature; every other attempt is final, no attempt follows it.         *)
C13_TransientExactly ==
  \A k \in OutputAt :
    /\ RetriedAt(k) <=>
         \/ FailedAt(k) /\ StrLen(log[k].text) < 50
         \/ HasChunk(log[k].text, whois_connection_limit_string[tld])
    /\ ~RetriedAt(k) => \A n \in OutputAt : n <= k

(* A throttled attempt with a clean exit status was retried, and the retry *)
(* ended with an error status and a full record: final.                    *)
C13_Witness ==
  /\ pc = "classify"
  /\ ~GaveUp
  /\ \E k, n \in OutputAt :
       /\ k < n
       /\ ~FailedAt(k) /\ RetriedAt(k)
       /\ FailedAt(n) /\ ~RetriedAt(n) /\ StrLen(log[n].text) >= 50

(* ------------------------------- C14 ----------------------------------- *)
(* The sleeps between two consecutive whois calls of the current           *)
(* candidate, the calls at k and n of its trace.                           *)
SleepsBetween(k, n) ==
  [i \in 1..(n - k - 1) |-> CandidateTrace[k + i].arg]

(* Consecutive attempts: whois calls at k and n with none in between.      *)
ConsecutiveAttempts(k, n) ==
  /\ k < n
  /\ CandidateTrace[k].op = "whois"
  /\ CandidateTrace[n].op = "whois"
  /\ \A i \in (k + 1)..(n - 1) : CandidateTrace[i].op = "sleep"

(* C14: between two consecutive attempts of a candidate the engine sleeps  *)
(* exactly once, for the doubled delay.  The code sleeps at line 215 and   *)
(* again at line 179, twice the doubled delay, so this does not hold.      *)
C14_OneSleepBetweenAttempts ==
  \A k, n \in 1..Len(CandidateTrace) :
    ConsecutiveAttempts(k, n) =>
      SleepsBetween(k, n) = <<2 * CandidateTrace[k - 1].arg>>

(* ------------------------------- C15 ----------------------------------- *)
(* C15: every whois call of the run directly follows a sleep of at least   *)
(* one second, so no two calls are made without a sleep between them; the  *)
(* sleep is of the current delay: the engine is about to query only right  *)
(* after it slept wait_seconds, which is 1 for the first attempt of a      *)
(* candidate and doubled for every further one.                            *)
C15_SleepBeforeEveryQuery ==
  /\ \A k \in 1..Len(trace) :
       trace[k].op = "whois" =>
         k > 1 /\ trace[k - 1].op = "sleep" /\ trace[k - 1].arg >= 1
  /\ pc = "query" => trace # <<>> /\ trace[Len(trace)] = SleepEv(wait_seconds)
  /\ \A n \in 1..Len(DelaysAtAttempts) : DelaysAtAttempts[n] = Pow2(n - 1)

(* C15 witness: the second candidate of a run has been queried twice, the  *)
(* first time after a sleep of 1 and the retry after a sleep of 2.         *)
C15_Witness ==
  /\ pc = "classify"
  /\ Len(FirstAttempts(trace)) = 2
  /\ DelaysAtAttempts = <<1, 2>>
  /\ ~GaveUp

(* ------------------------------- C16 ----------------------------------- *)
(* The outcomes the run has reported for the current candidate.            *)
Outcomes ==
  {kind \in {"free", "registered", "gave_up"} : LogOf(kind) # <<>>}

(* C16: a candidate that has been queried and left behind ended in exactly *)
(* one of free, registered and gave-up, and the free/registered report is  *)
(* never made once the engine has given up.  The break of line 211 falls   *)
(* through to lines 220-232, so this does not hold.                        *)
C16_ExactlyOneOutcome ==
  /\ (pc \in {"line", "done"} /\ Attempts >= 1) =>
       \E kind \in Outcomes : Outcomes = {kind}
  /\ GaveUp => Outcomes = {"gave_up"}

(* ------------------------------- C17 ----------------------------------- *)
(* C17: before the first attempt of every candidate the delay is 1 and no  *)
(* response is remembered, whatever the candidates before it met; and the  *)
(* report of a finished candidate is read off its own last response.       *)
C17_RetryStateIsLocal ==
  /\ (pc \in {"sleep", "query"} /\ Attempts = 0) =>
       wait_seconds = 1 /\ output = <<>>
  /\ Finished =>
       /\ Responses # <<>>
       /\ LogOf("free") # <<>> <=>
            HasChunk(Responses[Len(Responses)].out, whois_not_found_string[tld])

(* C17 witness: the second candidate of a run is about to be queried for   *)
(* the first time, after a first candidate that was retried at delay 2 and *)
(* left a response behind.                                                 *)
C17_Witness ==
  /\ pc = "query"
  /\ Attempts = 0
  /\ Len(FirstAttempts(trace)) = 1
  /\ \E k \in 1..Len(trace) : trace[k] = SleepEv(2)

(* ------------------------------- C18 ----------------------------------- *)
RECURSIVE TotalSlept(_)
(* Seconds slept over a sequence of events.                                *)
TotalSlept(events) ==
  IF events = <<>> THEN 0
  ELSE (IF Head(events).op = "sleep" THEN Head(events).arg ELSE 0)
         + TotalSlept(Tail(events))

(* Transient failures of the current candidate so far.                     *)
Failures == Len(LogOf("waiting")) + Len(LogOf("gave_up"))

(* C18: whatever the responses, a candidate is settled after a bounded     *)
(* number of attempts: its delay is 1 doubled once per failure, the retry  *)
(* loop runs and queries only while the delay is below the give-up         *)
(* threshold, so the attempts number at most two, and the time slept for   *)
(* the candidate is at most twice the threshold less three.                *)
C18_BoundedBackoff ==
  log # <<>> =>
    /\ wait_seconds = Pow2(Failures)
    /\ pc \in {"sleep", "query", "backoff"} => wait_seconds < GIVE_UP_THRESHOLD
    /\ \A n \in 1..Len(DelaysAtAttempts) :
         DelaysAtAttempts[n] < GIVE_UP_THRESHOLD
    /\ Pow2(Attempts) <= GIVE_UP_THRESHOLD
    /\ TotalSlept(CandidateTrace) <= 2 * GIVE_UP_THRESHOLD - 3

(* C18 witness: a candidate has given up after the longest wait there is:  *)
(* 1, 2 and 2 seconds.                                                     *)
C18_Witness ==
  /\ pc = "classify"
  /\ GaveUp
  /\ TotalSlept(CandidateTrace) = 2 * GIVE_UP_THRESHOLD - 3
  /\ Pow2(Attempts) = GIVE_UP_THRESHOLD

(* ------------------------------- C19 ----------------------------------- *)
(* C19: no whois call is made for a candidate of length zero, a line that  *)
(* normalizes to the empty label, whatever the bounds are.  With a minimal *)
(* length of 0 the filter of line 170 lets the empty label pass, so this   *)
(* does not hold.                                                          *)
C19_NoQueryForEmptyLabel ==
  /\ pc \in {"sleep", "query", "backoff", "classify"} => domain_name # <<>>
  /\ \A k \in 1..Len(trace) :
       trace[k].op = "whois" => trace[k].arg # "." \o tld

(* ------------------------------- C20 ----------------------------------- *)
RECURSIVE IsSubsequence(_, _)
(* a is b with some of its elements left out.                              *)
IsSubsequence(a, b) ==
  IF a = <<>> THEN TRUE
  ELSE IF b = <<>> THEN FALSE
  ELSE IF Head(a) = Head(b) THEN IsSubsequence(Tail(a), Tail(b))
  ELSE IsSubsequence(a, Tail(b))

(* The output lines of a sequence of domains (line 224).                   *)
LinesOf(domains) == [i \in 1..Len(domains) |-> domains[i] \o "\n"]

(* What the run has added to the content the output file had at its start, *)
(* written-and-unflushed lines included.                                   *)
Appended ==
  LET content == outfile \o outbuf
      prior == CHOOSE p \in PriorOutputs : IsPrefix(p, content)
  IN Drop(content, Len(prior))

(* C20: the lines the run has appended are, in order, a subsequence of the *)
(* domains it has queried, label + "." + tld, which are themselves the     *)
(* in-bounds candidates in input order after the skipped prefix: one line  *)
(* at most for an input line, in input order.                              *)
C20_AppendedLinesFollowTheInput ==
  /\ \E p \in PriorOutputs : IsPrefix(p, outfile \o outbuf)
  /\ IsSubsequence(Appended, LinesOf(FirstAttempts(trace)))
  /\ IsSubsequence(Appended, LinesOf(Candidates(Drop(infile, skip_first))))

(* C20 witness: a finished run over two different candidates, both         *)
(* queried, has appended the second one only.                              *)
C20_Witness ==
  /\ pc = "done"
  /\ skip_first = 0
  /\ Len(FirstAttempts(trace)) = 2
  /\ DomainOf(infile[1]) # DomainOf(infile[2])
  /\ Appended = <<DomainOf(infile[2]) \o "\n">>

====
